---- MODULE Spec2Model ----
(***************************************************************************)
(* A model of the cmed trading terminal: the three periodic drivers of     *)
(* src/App.tsx (market poller, account synchronizer, trading cycle), the   *)
(* decision provider of src/services/aiService.ts and the exchange gateway *)
(* of the MexcService class (src/unnamed/part_001).                        *)
(*                                                                         *)
(* React is modelled at the granularity of one JavaScript task: a handler  *)
(* (a timer callback, the continuation of an await, a click) runs to its   *)
(* next await, its state updates are committed, and the effects whose      *)
(* dependencies changed run their cleanup and their body, all in one step. *)
(* A useCallback closure is the record of the values it captured.          *)
(***************************************************************************)
EXTENDS Integers, Sequences, FiniteSets, TLC

\* ------------------------------------------------------------------ bounds
\* market ticks the interval timer may start in SpecMarket
MaxTicks == 53
\* timer fires and operator actions in Spec
MaxOps == 2
\* getTicker calls the market interval may leave outstanding in SpecMarket
MaxInFlight == 2
\* direct calls of a service in SpecAnalyze and SpecExec
MaxCalls == 2
\* account syncs that may be started
MaxSyncs == 2
\* trading cycles that may begin an analysis
MaxCycles == 2

\* ------------------------------------------------------- program constants
\* App.tsx:146  .slice(-50)
HistoryCap == 50
\* App.tsx:206  setInterval(refreshMarket, 5000)
MarketPollMs == 5000
\* App.tsx:213  setInterval(refreshAccountData, 20000)
AccountPollMs == 20000
\* App.tsx:222  settings.intervalMinutes * 60000
MsPerMinute == 60000
\* App.tsx:79  .slice(0, 100)
LogCap == 100

\* ------------------------------------------------------------------- values
\* JavaScript null / undefined for a record-valued state
Null == [present |-> FALSE]
\* no interval armed
NoTimer == [armed |-> FALSE]
Armed(fn, ms) == [armed |-> TRUE, fn |-> fn, ms |-> ms]

Symbols == {"BTCUSDT", "ETHUSDT"}
\* prices the public feed may report
Prices == {100, 101}

\* xs without its i-th element
RemoveAt(xs, i) == [j \in 1..(Len(xs) - 1) |-> IF j < i THEN xs[j] ELSE xs[j + 1]]

\* Array.prototype.slice(-n): the last n elements
SliceLastDropsNewest(xs, n) == IF Len(xs) <= n THEN xs ELSE SubSeq(xs, 1, n)
SliceLast(xs, n) == IF Len(xs) <= n THEN xs ELSE SubSeq(xs, Len(xs) - n + 1, Len(xs))

\* Array.prototype.slice(0, n): the first n elements
SliceFirst(xs, n) == IF Len(xs) <= n THEN xs ELSE SubSeq(xs, 1, n)

\* the settings a first start uses when nothing is stored
DefaultSettings ==
  [aiProvider |-> "gemini", geminiApiKey |-> "", openaiApiKey |-> "",
   deepseekApiKey |-> "", mexcApiKey |-> "", mexcSecretKey |-> "",
   tradingSymbol |-> "BTCUSDT", defaultLeverage |-> 10,
   isAutoTrading |-> FALSE, intervalMinutes |-> 1, isLiveMode |-> FALSE,
   corsProxyUrl |-> <<>>]

VARIABLES
  settings,        \* App.tsx:24   the configuration value
  isLoggedIn,      \* App.tsx:19
  isLoading,       \* App.tsx:61
  isAnalyzing,     \* App.tsx:62
  marketData,      \* App.tsx:51   Null or the published market snapshot
  mexcPositions,   \* App.tsx:54   the published position list
  acct,            \* App.tsx:52-57  the other published account values
  mexcStatus,      \* App.tsx:68
  lastAction,      \* App.tsx:60
  logs,            \* App.tsx:59   the operator-visible log, newest first
  geminiClient,    \* aiService.ts:6  "" or the key the cached client was built with
  marketTimer,     \* the interval armed at App.tsx:206
  accountTimer,    \* the interval armed at App.tsx:213
  tradeTimer,      \* the interval armed at App.tsx:222
  marketCalls,     \* refreshMarket invocations awaiting getTicker
  accountCalls,    \* refreshAccountData invocations awaiting Promise.all
  cycles,          \* runTradingCycle invocations awaiting analyze / executeTrade
  clock,           \* the wall clock read at App.tsx:142
  appended,        \* history: every sample a successful tick appended, in order
  count,           \* history: timer fires and operator actions, syncs and cycles started,
                   \* trading intervals set and not cleared, messages of failed orders
  ev,              \* history: how the latest market tick or account sync settled
  svc              \* a direct call of a service method and its result

vars == <<settings, isLoggedIn, isLoading, isAnalyzing, marketData, mexcPositions,
          acct, mexcStatus, lastAction, logs, geminiClient, marketTimer, accountTimer, tradeTimer,
          marketCalls, accountCalls, cycles, clock, appended, count, ev, svc>>

\* ------------------------------------------------- MexcService (part_001)
\* a value a JavaScript number field holds when the property is absent
Undefined == 0 - 1

Thrown(msg) == [threw |-> TRUE, msg |-> msg]
Returned(v) == [threw |-> FALSE, value |-> v]

\* getTicker(symbol) once the feed answered with lastPrice = price
Ticker(symbol, price) == [symbol |-> symbol, price |-> price]

BaseFuturesUrl == "https://fapi.mexc.com"
BaseSpotUrl == "https://api.mexc.com"

\* ---- JavaScript strings whose characters the code inspects are sequences
\* of one-character strings
Contains(text, needle) ==
  \E i \in 0..(Len(text) - Len(needle)) : SubSeq(text, i + 1, i + Len(needle)) = needle

\* String.prototype.trim
Trim(text) ==
  LET inked == {i \in 1..Len(text) : text[i] # " "}
  IN IF inked = {} THEN <<>>
     ELSE SubSeq(text, CHOOSE i \in inked : \A j \in inked : i <= j,
                       CHOOSE i \in inked : \A j \in inked : j <= i)

EndsWith(text, c) == Len(text) > 0 /\ text[Len(text)] = c

\* the needles of part_001:45, 71 and 82
UrlParam == <<"?", "u", "r", "l", "=">>
CorsAnywhere == <<"c", "o", "r", "s", "-", "a", "n", "y", "w", "h", "e", "r", "e">>
CorsDemo == <<"c", "o", "r", "s", "d", "e", "m", "o">>
Fetch == <<"f", "e", "t", "c", "h">>

\* an Error message: a literal of the program, then a run-time text, then a
\* literal. No literal of privateRequest contains "fetch", and each one that
\* precedes a run-time text ends in a space, so the message includes "fetch"
\* exactly when the run-time text does.
Message(pre, var, post) == [pre |-> pre, var |-> var, post |-> post]
Lit(s) == Message(s, <<>>, "")
MessageIncludes(msg, needle) == Contains(msg.var, needle)

\* ---- JSON values of a response body
JsUndefined == [t |-> "undefined", rows |-> <<>>]
JsNull == [t |-> "null", rows |-> <<>>]
JsZero == [t |-> "number", rows |-> <<>>]
JsObject == [t |-> "object", rows |-> <<>>]
JsArray(rows) == [t |-> "array", rows |-> rows]
\* ToBoolean of the values above (the number is 0)
Truthy(v) == v.t \in {"object", "array"}

\* a parsed body: an object with the fields the code reads, or an array
ObjectBody(code, msg, message, data, balances) ==
  [t |-> "object", code |-> code, msg |-> msg, message |-> message, data |-> data,
   balances |-> balances, rows |-> <<>>]
ArrayBody(rows) ==
  [t |-> "array", code |-> Undefined, msg |-> <<>>, message |-> <<>>,
   data |-> JsUndefined, balances |-> JsUndefined, rows |-> rows]

\* what fetch settles with: a rejection (transport), or a response with a
\* JSON content type (json) or another one (text). parses: whether the
\* payload is JSON text, and body what it parses to.
TransportFailure ==
  [kind |-> "transport", ok |-> FALSE, status |-> 0, parses |-> FALSE,
   body |-> ArrayBody(<<>>), text |-> <<>>]
JsonResponse(ok, status, body) ==
  [kind |-> "json", ok |-> ok, status |-> status, parses |-> TRUE, body |-> body,
   text |-> <<>>]
TextResponse(ok, status, text, parses, body) ==
  [kind |-> "text", ok |-> ok, status |-> status, parses |-> parses, body |-> body,
   text |-> text]

\* sign(params, secret): the HMAC-SHA256 of the query under the secret, kept
\* as the pair it is a function of
Sign(params, secret) == <<"HMAC-SHA256", secret, params>>

\* Date.now().toString() of part_001:37-38
Timestamp == "Date.now()"

\* the keys of a params object literal, in insertion order
ObjectKeys(params) ==
  IF DOMAIN params = {} THEN <<>>
  ELSE IF DOMAIN params = {"states"} THEN <<"states">>
  ELSE <<"symbol", "vol", "side", "type", "openType", "leverage">>

\* URLSearchParams' serialisation of one value
FormEncoded(v) == <<"urlencoded", v>>

\* new URLSearchParams({...params, timestamp}).toString(): the entries in
\* insertion order, the timestamp last
QueryParams(params, timestamp) ==
  LET Entries(keys) ==
        [i \in 1..(Len(keys) + 1) |->
           IF i <= Len(keys) THEN <<keys[i], FormEncoded(params[keys[i]])>>
           ELSE <<"timestamp", FormEncoded(timestamp)>>]
  IN Entries(ObjectKeys(params))

\* the URL handed to fetch: the target itself, or the target behind the proxy
RequestUrl(proxyUrl, targetUrl) ==
  LET Behind(proxy) ==
        IF proxy = <<>> THEN targetUrl
        ELSE IF Contains(proxy, UrlParam)
             THEN [proxy |-> proxy, separator |-> "",
                   target |-> <<"encodeURIComponent", targetUrl>>]
             ELSE [proxy |-> proxy, separator |-> IF EndsWith(proxy, "/") THEN "" ELSE "/",
                   target |-> targetUrl]
  IN Behind(Trim(proxyUrl))

\* privateRequest up to fetch: the credential check, then the request it
\* builds. req is Null when it throws before building one. signed is the
\* string sign was called with.
PrivateRequestStartChecksKeyOnly(baseUrl, endpoint, method, s, params) ==
  IF s.mexcApiKey = ""
  THEN [threw |-> TRUE, msg |-> Lit("MEXC API Keys are missing."), req |-> Null]
  ELSE LET Request(signed, signature, targetUrl) ==
             [threw |-> FALSE, msg |-> Lit(""),
              req |-> [present |-> TRUE, baseUrl |-> baseUrl, endpoint |-> endpoint,
                       method |-> method, apiKey |-> s.mexcApiKey, params |-> params,
                       signed |-> signed, signature |-> signature,
                       targetUrl |-> targetUrl,
                       requestUrl |-> RequestUrl(s.corsProxyUrl, targetUrl)]]
           Target(queryParams, signed, signature) ==
             Request(signed, signature,
                     [baseUrl |-> baseUrl, endpoint |-> endpoint, query |-> queryParams,
                      signature |-> signature])
           Signed(queryParams) ==
             Target(queryParams, queryParams, Sign(queryParams, s.mexcSecretKey))
       IN Signed(QueryParams(params, Timestamp))
PrivateRequestStartSignsUnstamped(baseUrl, endpoint, method, s, params) ==
  IF s.mexcApiKey = "" \/ s.mexcSecretKey = ""
  THEN [threw |-> TRUE, msg |-> Lit("MEXC API Keys are missing."), req |-> Null]
  ELSE LET Request(signed, signature, targetUrl) ==
             [threw |-> FALSE, msg |-> Lit(""),
              req |-> [present |-> TRUE, baseUrl |-> baseUrl, endpoint |-> endpoint,
                       method |-> method, apiKey |-> s.mexcApiKey, params |-> params,
                       signed |-> signed, signature |-> signature,
                       targetUrl |-> targetUrl,
                       requestUrl |-> RequestUrl(s.corsProxyUrl, targetUrl)]]
           Target(queryParams, signed, signature) ==
             Request(signed, signature,
                     [baseUrl |-> baseUrl, endpoint |-> endpoint, query |-> queryParams,
                      signature |-> signature])
           Unstamped(queryParams, signed) ==
             Target(queryParams, signed, Sign(signed, s.mexcSecretKey))
           Signed(queryParams) ==
             Unstamped(queryParams, SubSeq(queryParams, 1, Len(queryParams) - 1))
       IN Signed(QueryParams(params, Timestamp))
PrivateRequestStart(baseUrl, endpoint, method, s, params) ==
  IF s.mexcApiKey = "" \/ s.mexcSecretKey = ""
  THEN [threw |-> TRUE, msg |-> Lit("MEXC API Keys are missing."), req |-> Null]
  ELSE LET Request(signed, signature, targetUrl) ==
             [threw |-> FALSE, msg |-> Lit(""),
              req |-> [present |-> TRUE, baseUrl |-> baseUrl, endpoint |-> endpoint,
                       method |-> method, apiKey |-> s.mexcApiKey, params |-> params,
                       signed |-> signed, signature |-> signature,
                       targetUrl |-> targetUrl,
                       requestUrl |-> RequestUrl(s.corsProxyUrl, targetUrl)]]
           Target(queryParams, signed, signature) ==
             Request(signed, signature,
                     [baseUrl |-> baseUrl, endpoint |-> endpoint, query |-> queryParams,
                      signature |-> signature])
           Signed(queryParams) ==
             Target(queryParams, queryParams, Sign(queryParams, s.mexcSecretKey))
       IN Signed(QueryParams(params, Timestamp))

\* the try block of privateRequest once fetch settled
PrivateRequestTry(resp) ==
  IF resp.kind = "transport" THEN [threw |-> TRUE, typeError |-> TRUE, msg |-> Lit("Failed to fetch")]
  ELSE IF resp.kind = "json"
  THEN IF ~resp.parses
       THEN [threw |-> TRUE, typeError |-> FALSE, msg |-> Lit("Unexpected token")]
       ELSE LET result == resp.body
            IN IF ~resp.ok \/ (result.code # Undefined /\ result.code # 200 /\ result.code # 0)
               THEN [threw |-> TRUE, typeError |-> FALSE,
                     msg |-> IF result.msg # <<>> THEN Message("", result.msg, "")
                             ELSE IF result.message # <<>> THEN Message("", result.message, "")
                             ELSE Message("MEXC Error ", <<>>,
                                          ToString(IF result.code \notin {Undefined, 0}
                                                   THEN result.code ELSE resp.status))]
               ELSE [threw |-> FALSE, typeError |-> FALSE, value |-> result]
  ELSE IF Contains(resp.text, CorsAnywhere) /\ Contains(resp.text, CorsDemo)
       THEN [threw |-> TRUE, typeError |-> FALSE,
             msg |-> Lit("Proxy Activation Required: Visit https://cors-anywhere.herokuapp.com/corsdemo and click the button.")]
       ELSE IF ~resp.ok
       THEN [threw |-> TRUE, typeError |-> FALSE,
             msg |-> Message("Proxy/Network Error: ", SliceFirst(resp.text, 50), "...")]
       ELSE IF resp.parses
       THEN [threw |-> FALSE, typeError |-> FALSE, value |-> resp.body]
       ELSE [threw |-> TRUE, typeError |-> FALSE,
             msg |-> Message("Invalid JSON from Proxy: ", SliceFirst(resp.text, 50), "")]

\* the catch block of privateRequest
PrivateRequestCatch(r) ==
  IF r.threw
  THEN IF r.typeError \/ MessageIncludes(r.msg, Fetch)
       THEN Thrown(Lit("CORS/Proxy Error. Use a Browser Extension or set a valid Proxy URL."))
       ELSE Thrown(r.msg)
  ELSE Returned(r.value)

\* privateRequest after fetch settled with resp
PrivateRequestSettle(resp) == PrivateRequestCatch(PrivateRequestTry(resp))

\* texts an exchange may put in msg
NoFunds == <<"n", "o", " ", "f", "u", "n", "d", "s">>

\* what the exchange (or the transport) does with a dispatched request
GatewayOutcomes == {"ok", "rejected", "transport"}

\* the response behind each outcome
GatewayResponse(req, outcome) ==
  CASE outcome = "ok" ->
         JsonResponse(TRUE, 200, ObjectBody(0, <<>>, <<>>, JsUndefined, JsUndefined))
    [] outcome = "rejected" ->
         JsonResponse(TRUE, 200, ObjectBody(602, NoFunds, <<>>, JsUndefined, JsUndefined))
    [] OTHER -> TransportFailure

\* privateRequest after fetch settled
PrivateRequestFinish(req, outcome) == PrivateRequestSettle(GatewayResponse(req, outcome))

\* the exchange's side code of an order
SideCodeSwapped(action) == IF action = "LONG" THEN 2 ELSE IF action = "SHORT" THEN 1 ELSE 3
SideCode(action) == IF action = "LONG" THEN 1 ELSE IF action = "SHORT" THEN 2 ELSE 3

OrderParamsFixedLeverage(action, s) ==
  [symbol |-> s.tradingSymbol, vol |-> 1, side |-> SideCode(action), type |-> 5,
   openType |-> 1, leverage |-> 1]
OrderParams(action, s) ==
  [symbol |-> s.tradingSymbol, vol |-> 1, side |-> SideCode(action), type |-> 5,
   openType |-> 1, leverage |-> s.defaultLeverage]

\* the position executeTrade fabricates in simulation mode
SimulatedFillRounded(action, s, marketPrice) ==
  [symbol |-> s.tradingSymbol,
   side |-> IF action = "LONG" THEN "LONG" ELSE "SHORT",
   entryPrice |-> (marketPrice \div 100) * 100, currentPrice |-> marketPrice,
   leverage |-> s.defaultLeverage, pnl |-> 0, pnlPercent |-> 0, margin |-> 100]
SimulatedFill(action, s, marketPrice) ==
  [symbol |-> s.tradingSymbol,
   side |-> IF action = "LONG" THEN "LONG" ELSE "SHORT",
   entryPrice |-> marketPrice, currentPrice |-> marketPrice,
   leverage |-> s.defaultLeverage, pnl |-> 0, pnlPercent |-> 0, margin |-> 100]

\* an operation at await this.privateRequest(...): p is that call up to
\* fetch, and a throw of it is the operation's own
AwaitPrivateRequest(call, p) ==
  IF p.threw
  THEN [done |-> TRUE, res |-> Thrown(p.msg), call |-> call, req |-> Null]
  ELSE [done |-> FALSE, res |-> Null, call |-> call, req |-> p.req]

\* executeTrade up to its first await. call is the privateRequest invocation
\* it makes (Null in simulation mode), req the request that invocation
\* dispatched (Null when it threw on the credentials); done is TRUE when the
\* promise is already settled, with res.
ExecuteTradeStart(action, s, marketPrice) ==
  IF ~s.isLiveMode
  THEN [done |-> TRUE, res |-> Returned(SimulatedFill(action, s, marketPrice)),
        call |-> Null, req |-> Null]
  ELSE LET call == [present |-> TRUE, baseUrl |-> BaseFuturesUrl,
                    endpoint |-> "/futures/api/v1/private/order/create",
                    method |-> "POST", params |-> OrderParams(action, s)]
       IN AwaitPrivateRequest(
            call, PrivateRequestStart(call.baseUrl, call.endpoint, call.method, s,
                                      call.params))

\* executeTrade after the order request settled
ExecuteTradeFinish(req, outcome) == PrivateRequestFinish(req, outcome)

\* ---- the signed account queries

\* params = {} of part_001:32
NoParams == <<>>

Queries ==
  {"getSpotBalance", "getFuturesBalance", "getOpenPositions", "getOpenOrders",
   "getTradeHistory", "getTransferHistory"}

\* the privateRequest call each query makes
QueryCall(op) ==
  CASE op = "getSpotBalance" ->
         [present |-> TRUE, baseUrl |-> BaseSpotUrl, endpoint |-> "/api/v3/account",
          method |-> "GET", params |-> NoParams]
    [] op = "getFuturesBalance" ->
         [present |-> TRUE, baseUrl |-> BaseFuturesUrl,
          endpoint |-> "/futures/api/v1/private/account/assets",
          method |-> "GET", params |-> NoParams]
    [] op = "getOpenPositions" ->
         [present |-> TRUE, baseUrl |-> BaseFuturesUrl,
          endpoint |-> "/futures/api/v1/private/position/open_details",
          method |-> "GET", params |-> NoParams]
    [] op = "getOpenOrders" ->
         [present |-> TRUE, baseUrl |-> BaseFuturesUrl,
          endpoint |-> "/futures/api/v1/private/order/list/open_orders",
          method |-> "GET", params |-> NoParams]
    [] op = "getTradeHistory" ->
         [present |-> TRUE, baseUrl |-> BaseFuturesUrl,
          endpoint |-> "/futures/api/v1/private/order/list/history_orders",
          method |-> "GET", params |-> [states |-> "3,4"]]
    [] OTHER ->
         [present |-> TRUE, baseUrl |-> BaseSpotUrl,
          endpoint |-> "/api/v3/capital/deposit/hisrec",
          method |-> "GET", params |-> NoParams]

\* calling .map on a value that is not an array: it has no map
NotAFunction == Lit("map is not a function")

\* the row conversions (amounts are whole numbers in the model)
SpotRow(b) ==
  [asset |-> b.asset, available |-> b.free, frozen |-> b.locked, total |-> b.free + b.locked]
SpotKept(b) == b.total > 0
FuturesRow(b) ==
  [asset |-> b.currency, available |-> b.availableBalance, frozen |-> b.frozenBalance,
   total |-> b.balance]
PositionRow(p) ==
  [symbol |-> p.symbol, side |-> IF p.positionType = 1 THEN "LONG" ELSE "SHORT",
   entryPrice |-> p.holdAvgPrice, leverage |-> p.leverage, margin |-> p.margin]
OrderRow(o) ==
  [orderId |-> o.orderId, symbol |-> o.symbol, quantity |-> o.vol,
   side |-> IF o.side = 1 THEN "BUY" ELSE "SELL",
   type |-> IF o.type = 1 THEN "LIMIT" ELSE "MARKET", status |-> "OPEN"]
TradeRow(t) ==
  [id |-> t.orderId, symbol |-> t.symbol, quantity |-> t.vol,
   side |-> IF t.side = 1 THEN "BUY" ELSE "SELL",
   pnl |-> IF t.realisedPnl = Undefined THEN 0 ELSE t.realisedPnl]
TransferRow(t) ==
  [id |-> t.id, asset |-> t.coin, amount |-> t.amount, type |-> "DEPOSIT",
   status |-> IF t.status = 1 THEN "SUCCESS" ELSE "PENDING"]

\* the row conversion of the queries that read result.data
DataRow(op, row) ==
  CASE op = "getFuturesBalance" -> FuturesRow(row)
    [] op = "getOpenPositions" -> PositionRow(row)
    [] op = "getOpenOrders" -> OrderRow(row)
    [] OTHER -> TradeRow(row)

\* getSpotBalance after privateRequest settled with r: (data.balances || [])
GetSpotBalance(r) ==
  IF r.threw THEN r
  ELSE LET Listed(balances) ==
             IF balances.t = "array"
             THEN Returned(SelectSeq([i \in 1..Len(balances.rows) |->
                                        SpotRow(balances.rows[i])], SpotKept))
             ELSE Thrown(NotAFunction)
       IN Listed(IF Truthy(r.value.balances) THEN r.value.balances ELSE JsArray(<<>>))

\* getFuturesBalance, getOpenPositions, getOpenOrders and getTradeHistory
\* after privateRequest settled with r: if (!result.data) return []
GetDataList(op, r) ==
  IF r.threw THEN r
  ELSE IF ~Truthy(r.value.data) THEN Returned(<<>>)
       ELSE IF r.value.data.t = "array"
            THEN Returned([i \in 1..Len(r.value.data.rows) |-> DataRow(op, r.value.data.rows[i])])
            ELSE Thrown(NotAFunction)

\* getTransferHistory after privateRequest settled with r: the catch block
\* turns a throw into []
GetTransferHistoryRethrows(r) ==
  IF r.threw THEN r
  ELSE IF r.value.t # "array" THEN Returned(<<>>)
       ELSE Returned([i \in 1..Len(r.value.rows) |-> TransferRow(r.value.rows[i])])
GetTransferHistory(r) ==
  IF r.threw THEN Returned(<<>>)
  ELSE IF r.value.t # "array" THEN Returned(<<>>)
       ELSE Returned([i \in 1..Len(r.value.rows) |-> TransferRow(r.value.rows[i])])

\* a query as its caller sees it once privateRequest settled with r
QueryResult(op, r) ==
  CASE op = "getSpotBalance" -> GetSpotBalance(r)
    [] op = "getTransferHistory" -> GetTransferHistory(r)
    [] OTHER -> GetDataList(op, r)

\* a query up to fetch: the request privateRequest builds, or the settled
\* result when privateRequest threw on the credentials
QueryAwait(op, x) ==
  IF x.done THEN [x EXCEPT !.res = QueryResult(op, @)] ELSE x
QueryStart(op, s) ==
  LET call == QueryCall(op)
  IN QueryAwait(op, AwaitPrivateRequest(
                      call, PrivateRequestStart(call.baseUrl, call.endpoint, call.method, s,
                                                call.params)))

\* a query once fetch settled with resp
QueryFinish(op, resp) == QueryResult(op, PrivateRequestSettle(resp))

\* the six queries of one sync once each fetch settled: rs maps a query to
\* its response
SyncResults(rs) == [q \in Queries |-> QueryFinish(q, rs[q])]
Rejecting(rs) == {q \in Queries : QueryFinish(q, rs[q]).threw}

\* Promise.all over the six results: the values in the order of the array,
\* or the error of the query that rejected first
PromiseAll(res, first) ==
  IF \E q \in Queries : res[q].threw
  THEN Thrown(res[first].msg)
  ELSE Returned([spot |-> res["getSpotBalance"].value,
                 futures |-> res["getFuturesBalance"].value,
                 positions |-> res["getOpenPositions"].value,
                 orders |-> res["getOpenOrders"].value,
                 trades |-> res["getTradeHistory"].value,
                 transfers |-> res["getTransferHistory"].value])

\* ------------------------------------------------ AIService (aiService.ts)
Actions == {"LONG", "SHORT", "CLOSE", "WAIT"}
Providers == {"gemini", "openai", "deepseek"}

\* the decision of the catch block
WaitDecision(msg) ==
  [action |-> "WAIT", leverage |-> 1, reason |-> <<"Analysis failed: ", msg>>,
   confidence |-> 0]

\* a well-formed decision a backend may answer with
Decision(action, leverage) ==
  [action |-> action, leverage |-> leverage, reason |-> <<"r">>, confidence |-> 80]

\* JSON objects a backend may answer with that are no TradeDecision: the
\* empty object, and an action outside the four
EmptyObject ==
  [action |-> "undefined", leverage |-> Undefined, reason |-> <<>>,
   confidence |-> Undefined]
OddAction == [action |-> "HOLD", leverage |-> 5, reason |-> <<"r">>, confidence |-> 80]

\* what a backend does with an analysis request: "unreachable" the call
\* rejects; "error" it answers with an error; "garbage" the content is no
\* JSON; "nochoices" (openai, deepseek) the body has neither error nor
\* choices; "empty" (gemini) response.text is empty; "json" the content
\* parses to obj
Failures == {"unreachable", "error", "garbage", "nochoices"}
Answer(obj) == [kind |-> "json", obj |-> obj]
Failure(kind) == [kind |-> kind, obj |-> EmptyObject]
EmptyText == [kind |-> "empty", obj |-> EmptyObject]

\* process.env.API_KEY as the browser build sees it
EnvApiKey == ""

\* getGemini: the client is built once, with the key of the first call
GetGemini(client, apiKey) == IF client = "" THEN apiKey ELSE client

\* analyze up to its first await. threw: the try block threw before any
\* request; otherwise key is the API key the request is made with and
\* client the Gemini client the service holds from now on.
AnalyzeStart(s, envKey, client) ==
  CASE s.aiProvider = "gemini" ->
         LET apiKey == IF s.geminiApiKey # "" THEN s.geminiApiKey ELSE envKey
         IN IF apiKey = ""
            THEN [threw |-> TRUE, key |-> "", client |-> client,
                  msg |-> "Gemini API Key missing. Please provide it in settings."]
            ELSE [threw |-> FALSE, key |-> GetGemini(client, apiKey),
                  client |-> GetGemini(client, apiKey), msg |-> ""]
    [] s.aiProvider = "openai" ->
         IF s.openaiApiKey = ""
         THEN [threw |-> TRUE, key |-> "", client |-> client, msg |-> "OpenAI API Key missing"]
         ELSE [threw |-> FALSE, key |-> s.openaiApiKey, client |-> client, msg |-> ""]
    [] s.aiProvider = "deepseek" ->
         IF s.deepseekApiKey = ""
         THEN [threw |-> TRUE, key |-> "", client |-> client, msg |-> "DeepSeek API Key missing"]
         ELSE [threw |-> FALSE, key |-> s.deepseekApiKey, client |-> client, msg |-> ""]
    [] OTHER -> [threw |-> TRUE, key |-> "", client |-> client, msg |-> "Unsupported AI Provider"]

\* the try block after the backend settled: what it returns or throws
AnalyzeTry(provider, out) ==
  IF provider = "gemini"
  THEN CASE out.kind = "unreachable" -> Thrown("fetch failed")
         [] out.kind \in {"error", "nochoices"} -> Thrown("backend error")
         [] out.kind = "garbage" -> Thrown("Unexpected token")
         [] out.kind = "empty" -> Returned(EmptyObject)
         [] OTHER -> Returned(out.obj)
  ELSE CASE out.kind = "unreachable" -> Thrown("Failed to fetch")
         [] out.kind = "error" -> Thrown("backend error")
         [] out.kind = "nochoices" -> Thrown("Cannot read properties of undefined")
         [] out.kind \in {"garbage", "empty"} -> Thrown("Unexpected token")
         [] OTHER -> Returned(out.obj)

\* the catch block: any throw of the try block becomes the WAIT decision
CatchRethrows(r) == r
Catch(r) == IF r.threw THEN Returned(WaitDecision(r.msg)) ELSE r

\* analyze as its caller sees it once the backend settled
AnalyzeFinish(provider, out) == Catch(AnalyzeTry(provider, out))

\* ------------------------------------------------------------ App (App.tsx)
\* the component's state, the timers and the outstanding calls, as one value
\* a handler transforms
Cur ==
  [settings |-> settings, isLoggedIn |-> isLoggedIn, isLoading |-> isLoading,
   isAnalyzing |-> isAnalyzing, marketData |-> marketData,
   mexcPositions |-> mexcPositions, acct |-> acct, mexcStatus |-> mexcStatus,
   lastAction |-> lastAction, logs |-> logs, geminiClient |-> geminiClient,
   marketTimer |-> marketTimer, accountTimer |-> accountTimer,
   tradeTimer |-> tradeTimer, marketCalls |-> marketCalls,
   accountCalls |-> accountCalls, cycles |-> cycles, count |-> count]

\* addLog: the new entry goes first, the list keeps its first 100
AddLog(u, type, message) ==
  [u EXCEPT !.logs = SliceFirst(<<[type |-> type, message |-> message]>> \o @, LogCap)]

\* what each useCallback closure captured (its dependency list)
RefreshMarketFn(s, loading) == [symbol |-> s.tradingSymbol, isLoading |-> loading]
RefreshAccountDataFn(s, loggedIn) == [settings |-> s, isLoggedIn |-> loggedIn]
RunTradingCycleFn(s, positions, md, loggedIn) ==
  [settings |-> s, mexcPositions |-> positions, marketData |-> md,
   refreshAccountData |-> RefreshAccountDataFn(s, loggedIn)]

\* refreshMarket() up to its await: getTicker(symbol) is outstanding
RefreshMarket(fn, u) == [u EXCEPT !.marketCalls = Append(@, fn)]

\* the updater of setMarketData: append the sample, keep the last 50
NextMarketData(prev, ticker, currentTime) ==
  LET history == IF prev.present THEN prev.history ELSE <<>>
      newHistory == SliceLast(Append(history, [time |-> currentTime, price |-> ticker.price]),
                              HistoryCap)
  IN [present |-> TRUE, symbol |-> ticker.symbol, price |-> ticker.price,
      history |-> newHistory]

\* refreshMarket after getTicker resolved
RefreshMarketResolved(fn, ticker, currentTime, u) ==
  [u EXCEPT !.marketData = NextMarketData(@, ticker, currentTime),
            !.isLoading = IF fn.isLoading THEN FALSE ELSE @]

\* refreshMarket after getTicker rejected: the catch block
RefreshMarketRejectedClears(fn, u) ==
  [u EXCEPT !.marketData = Null, !.isLoading = IF fn.isLoading THEN FALSE ELSE @]
RefreshMarketRejected(fn, u) ==
  [u EXCEPT !.isLoading = IF fn.isLoading THEN FALSE ELSE @]

\* refreshAccountData() up to its await: the gate, then the six queries
RefreshAccountData(fn, u) ==
  IF fn.settings.mexcApiKey = "" \/ fn.settings.mexcSecretKey = "" \/ ~fn.isLoggedIn
  THEN [u EXCEPT !.mexcStatus = "DISCONNECTED"]
  ELSE [u EXCEPT !.accountCalls = Append(@, fn), !.count.syncs = @ + 1]

\* refreshAccountData after Promise.all resolved with the six lists r
RefreshAccountDataResolvedKeepsOrders(r, u) ==
  [u EXCEPT !.acct = [spot |-> r.spot, futures |-> r.futures, orders |-> @.orders,
                      trades |-> r.trades, transfers |-> r.transfers],
            !.mexcPositions = r.positions,
            !.mexcStatus = "CONNECTED"]
RefreshAccountDataResolvedStalePositions(r, u) ==
  [u EXCEPT !.acct = [spot |-> r.spot, futures |-> r.futures, orders |-> r.orders,
                      trades |-> r.trades, transfers |-> r.transfers],
            !.mexcStatus = "CONNECTED"]
RefreshAccountDataResolved(r, u) ==
  [u EXCEPT !.acct = [spot |-> r.spot, futures |-> r.futures, orders |-> r.orders,
                      trades |-> r.trades, transfers |-> r.transfers],
            !.mexcPositions = r.positions,
            !.mexcStatus = "CONNECTED"]

\* refreshAccountData after Promise.all rejected
RefreshAccountDataRejected(msg, u) ==
  [AddLog(u, "ERROR", <<"MEXC sync error: ", msg>>) EXCEPT !.mexcStatus = "ERROR"]

ActiveSide(positions) == IF Len(positions) > 0 THEN positions[1].side ELSE "NONE"

\* runTradingCycle after executeTrade settled with res
\* (count.failedOrders lists the messages of the executeTrade calls that threw)
AfterExecuteTradeSilent(fn, res, u) ==
  IF res.threw
  THEN [u EXCEPT !.isAnalyzing = FALSE, !.count.failedOrders = Append(@, res.msg)]
  ELSE [RefreshAccountData(fn.refreshAccountData, u) EXCEPT !.isAnalyzing = FALSE]
AfterExecuteTradeNoResync(fn, res, u) ==
  IF res.threw
  THEN [AddLog(u, "ERROR", <<"AI analysis failed: ", res.msg>>) EXCEPT
          !.isAnalyzing = FALSE, !.count.failedOrders = Append(@, res.msg)]
  ELSE [u EXCEPT !.isAnalyzing = FALSE]
AfterExecuteTradeStaysAnalyzing(fn, res, u) ==
  IF res.threw
  THEN [AddLog(u, "ERROR", <<"AI analysis failed: ", res.msg>>) EXCEPT
          !.count.failedOrders = Append(@, res.msg)]
  ELSE [RefreshAccountData(fn.refreshAccountData, u) EXCEPT !.isAnalyzing = FALSE]
AfterExecuteTrade(fn, res, u) ==
  IF res.threw
  THEN [AddLog(u, "ERROR", <<"AI analysis failed: ", res.msg>>) EXCEPT
          !.isAnalyzing = FALSE, !.count.failedOrders = Append(@, res.msg)]
  ELSE [RefreshAccountData(fn.refreshAccountData, u) EXCEPT !.isAnalyzing = FALSE]

\* runTradingCycle at await mexc.executeTrade(...): x is the call up to its
\* first await
AwaitExecuteTrade(fn, d, x, u) ==
  IF x.done
  THEN AfterExecuteTrade(fn, x.res, u)
  ELSE [u EXCEPT !.cycles = Append(@, [pc |-> "execute", fn |-> fn, decision |-> d,
                                       req |-> x.req])]

\* runTradingCycle after analyze resolved with decision d, up to the next
\* await (or to its end)
AfterAnalyze(fn, d, u) ==
  LET u1 == [u EXCEPT !.lastAction = d]
      u2 == AddLog(u1, "TRADE", <<"AI decision: ", d.action, d.confidence>>)
  IN IF d.action # "WAIT"
     THEN IF fn.settings.isLiveMode
          THEN AwaitExecuteTrade(
                 fn, d, ExecuteTradeStart(d.action, fn.settings, fn.marketData.price), u2)
          ELSE [u2 EXCEPT !.isAnalyzing = FALSE]
     ELSE [u1 EXCEPT !.isAnalyzing = FALSE]

\* runTradingCycle() up to its first await (or to its end, when analyze
\* settles without a request)
RunTradingCycle(fn, u) ==
  IF ~fn.settings.isAutoTrading \/ ~fn.marketData.present
  THEN u
  ELSE LET a == AnalyzeStart(fn.settings, EnvApiKey, u.geminiClient)
           u1 == [u EXCEPT !.isAnalyzing = TRUE, !.geminiClient = a.client,
                           !.count.cycles = @ + 1]
       IN IF a.threw
          THEN AfterAnalyze(fn, Catch(Thrown(a.msg)).value, u1)
          ELSE [u1 EXCEPT !.cycles = Append(@, [pc |-> "analyze", fn |-> fn,
                                                 activeSide |-> ActiveSide(fn.mexcPositions),
                                                 key |-> a.key])]

\* an effect runs after a render when one of its dependencies changed
\* (and after the first render): `changed` says whether it runs.
\* the effect of App.tsx:203-208: call refreshMarket, arm the interval
MarketEffect(changed, u) ==
  LET fn == RefreshMarketFn(u.settings, u.isLoading)
  IN IF changed
     THEN [RefreshMarket(fn, u) EXCEPT !.marketTimer = Armed(fn, MarketPollMs)]
     ELSE u

\* the effect of App.tsx:210-216
AccountEffect(changed, u) ==
  LET fn == RefreshAccountDataFn(u.settings, u.isLoggedIn)
  IN IF ~changed THEN u
     ELSE IF u.isLoggedIn
          THEN [RefreshAccountData(fn, u) EXCEPT !.accountTimer = Armed(fn, AccountPollMs)]
          ELSE [u EXCEPT !.accountTimer = NoTimer]

\* the cleanup of the effect of App.tsx:218-225, which runs before the
\* effect runs again: clearInterval(interval) of the run before
\* (count.intervals is the number of trading intervals that were set and
\* not cleared; clearInterval(undefined) does nothing)
TradingCleanupSkipped(changed, u) == u
TradingCleanup(changed, u) ==
  IF changed /\ u.tradeTimer.armed
  THEN [u EXCEPT !.tradeTimer = NoTimer, !.count.intervals = @ - 1]
  ELSE u

\* the effect of App.tsx:218-225
TradingEffect(changed, u) ==
  LET fn == RunTradingCycleFn(u.settings, u.mexcPositions, u.marketData, u.isLoggedIn)
  IN IF changed /\ u.settings.isAutoTrading
     THEN [RunTradingCycle(fn, u) EXCEPT
             !.tradeTimer = Armed(fn, u.settings.intervalMinutes * MsPerMinute),
             !.count.intervals = @ + 1]
     ELSE u

\* which effects run after a render: those with a changed dependency.
\* fresh names the object-valued states that were set to a new object.
MarketDepsChanged(u) ==
  RefreshMarketFn(u.settings, u.isLoading) # RefreshMarketFn(settings, isLoading)
AccountDepsChanged(u) ==
  RefreshAccountDataFn(u.settings, u.isLoggedIn) # RefreshAccountDataFn(settings, isLoggedIn)
TradingDepsChanged(u, fresh) ==
  \/ RunTradingCycleFn(u.settings, u.mexcPositions, u.marketData, u.isLoggedIn)
       # RunTradingCycleFn(settings, mexcPositions, marketData, isLoggedIn)
  \/ fresh \cap {"marketData", "mexcPositions"} # {}

\* the state after the render that follows a handler: u is the state the
\* handler left, and each effect with a changed dependency has run
Rendered(u, fresh) ==
  TradingEffect(TradingDepsChanged(u, fresh),
                TradingCleanup(TradingDepsChanged(u, fresh),
                               AccountEffect(AccountDepsChanged(u),
                                             MarketEffect(MarketDepsChanged(u), u))))

\* the explored behaviours start at most MaxSyncs account syncs and
\* MaxCycles trading cycles
WithinBounds(r) ==
  /\ r.count.syncs <= MaxSyncs
  /\ r.count.cycles <= MaxCycles

Commit(u, fresh) ==
  LET Publish(r) ==
        /\ WithinBounds(r)
        /\ settings' = r.settings
        /\ isLoggedIn' = r.isLoggedIn
        /\ isLoading' = r.isLoading
        /\ isAnalyzing' = r.isAnalyzing
        /\ marketData' = r.marketData
        /\ mexcPositions' = r.mexcPositions
        /\ acct' = r.acct
        /\ mexcStatus' = r.mexcStatus
        /\ lastAction' = r.lastAction
        /\ logs' = r.logs
        /\ geminiClient' = r.geminiClient
        /\ marketTimer' = r.marketTimer
        /\ accountTimer' = r.accountTimer
        /\ tradeTimer' = r.tradeTimer
        /\ marketCalls' = r.marketCalls
        /\ accountCalls' = r.accountCalls
        /\ cycles' = r.cycles
        /\ count' = r.count
  IN \E v \in {u} : \E r \in {Rendered(v, fresh)} : Publish(r)

\* ---------------------------------------------------------------- actions
\* the history variables and the service harness a handler leaves alone
Quiet == UNCHANGED <<clock, appended, ev, svc>>

\* the market interval fires: refreshMarket() of the armed closure
MarketTimerFire(limit, window) ==
  /\ marketTimer.armed
  /\ count.ops < limit
  /\ Len(marketCalls) < window
  /\ Commit(RefreshMarket(marketTimer.fn, [Cur EXCEPT !.count.ops = @ + 1]), {})
  /\ Quiet

\* an outstanding getTicker resolves with a price of the feed
GetTickerResolves(prices) ==
  \E i \in 1..Len(marketCalls), price \in prices :
    LET fn == marketCalls[i]
        ticker == Ticker(fn.symbol, price)
        u == [Cur EXCEPT !.marketCalls = RemoveAt(@, i)]
    IN /\ Commit(RefreshMarketResolved(fn, ticker, clock, u), {"marketData"})
       /\ clock' = clock + 1
       /\ appended' = Append(appended, [time |-> clock, price |-> price])
       /\ ev' = "resolved"
       /\ UNCHANGED svc

\* an outstanding getTicker rejects (feed unreachable, non-success status)
GetTickerRejects ==
  \E i \in 1..Len(marketCalls) :
    LET fn == marketCalls[i]
        u == [Cur EXCEPT !.marketCalls = RemoveAt(@, i), !.count.failed = 1]
    IN /\ Commit(RefreshMarketRejected(fn, u), {})
       /\ ev' = "rejected"
       /\ UNCHANGED <<clock, appended, svc>>

\* responses of the exchange to the account queries
OkData(data) == JsonResponse(TRUE, 200, ObjectBody(0, <<>>, <<>>, data, JsUndefined))
OkBalances(balances) ==
  JsonResponse(TRUE, 200, ObjectBody(Undefined, <<>>, <<>>, JsUndefined, balances))
OkArray(rows) == JsonResponse(TRUE, 200, ArrayBody(rows))
Refused(status, code, msg) ==
  JsonResponse(status = 200, status, ObjectBody(code, msg, <<>>, JsUndefined, JsUndefined))

\* the rows an operation's endpoint lists
RowsFor(op) ==
  CASE op = "getSpotBalance" ->
         <<[asset |-> "USDT", free |-> 5, locked |-> 1],
           [asset |-> "BTC", free |-> 0, locked |-> 0]>>
    [] op = "getFuturesBalance" ->
         <<[currency |-> "USDT", availableBalance |-> 7, frozenBalance |-> 0, balance |-> 7]>>
    [] op = "getOpenPositions" ->
         <<[symbol |-> "BTCUSDT", positionType |-> 1, holdAvgPrice |-> 100, leverage |-> 10,
            margin |-> 100]>>
    [] op = "getOpenOrders" ->
         <<[orderId |-> "o1", symbol |-> "BTCUSDT", vol |-> 1, side |-> 1, type |-> 5]>>
    [] op = "getTradeHistory" ->
         <<[orderId |-> "t1", symbol |-> "BTCUSDT", vol |-> 1, side |-> 2,
            realisedPnl |-> Undefined]>>
    [] OTHER -> <<[id |-> "d1", coin |-> "USDT", amount |-> 3, status |-> 1]>>

\* a sync whose queries all answer with the given lists
SyncAnswer(balances, futures, positions, orders, trades, transfers) ==
  [q \in Queries |->
     CASE q = "getSpotBalance" -> balances
       [] q = "getFuturesBalance" -> futures
       [] q = "getOpenPositions" -> positions
       [] q = "getOpenOrders" -> orders
       [] q = "getTradeHistory" -> trades
       [] OTHER -> transfers]

\* an empty account, an account with an open long position, and a sync the
\* exchange refuses
CoarseSyncs ==
  LET EmptyAccount ==
        SyncAnswer(OkBalances(JsArray(<<>>)), OkData(JsArray(<<>>)), OkData(JsArray(<<>>)),
                   OkData(JsArray(<<>>)), OkData(JsArray(<<>>)), OkArray(<<>>))
      FundedAccount ==
        SyncAnswer(OkBalances(JsArray(RowsFor("getSpotBalance"))),
                   OkData(JsArray(RowsFor("getFuturesBalance"))),
                   OkData(JsArray(RowsFor("getOpenPositions"))),
                   OkData(JsArray(RowsFor("getOpenOrders"))),
                   OkData(JsArray(RowsFor("getTradeHistory"))),
                   OkArray(RowsFor("getTransferHistory")))
      RefusedSync == [EmptyAccount EXCEPT !["getOpenPositions"] = Refused(200, 602, NoFunds)]
  IN {EmptyAccount, FundedAccount, RefusedSync}

\* the account interval fires: refreshAccountData() of the armed closure
AccountTimerFire(limit) ==
  /\ accountTimer.armed
  /\ count.ops < limit
  /\ Commit(RefreshAccountData(accountTimer.fn, [Cur EXCEPT !.count.ops = @ + 1]), {})
  /\ Quiet

\* the Promise.all of the i-th outstanding refreshAccountData settles: the
\* queries were answered with rs, and first is the query whose rejection
\* came first (when one rejected)
AccountSettlesWith(i, rs, first) ==
  \E all \in {PromiseAll(SyncResults(rs), first)}, rejecting \in {Rejecting(rs)} :
     /\ i \in 1..Len(accountCalls)
     /\ IF rejecting = {} THEN first = "getSpotBalance" ELSE first \in rejecting
     /\ IF all.threw
        THEN Commit(RefreshAccountDataRejected(
                      all.msg, [Cur EXCEPT !.accountCalls = RemoveAt(@, i)]), {})
        ELSE Commit(RefreshAccountDataResolved(
                      all.value, [Cur EXCEPT !.accountCalls = RemoveAt(@, i)]),
                    {"mexcPositions"})
     /\ ev' = [sync |-> rs, first |-> first]
     /\ UNCHANGED <<clock, appended, svc>>

\* the Promise.all of an outstanding refreshAccountData resolves
AccountResolves(responses) ==
  \E i \in 1..Len(accountCalls), rs \in {x \in responses : Rejecting(x) = {}} :
    AccountSettlesWith(i, rs, "getSpotBalance")

\* the Promise.all of an outstanding refreshAccountData rejects
AccountRejects(responses) ==
  \E i \in 1..Len(accountCalls), rs \in responses :
    \E first \in Rejecting(rs) : AccountSettlesWith(i, rs, first)

\* the trading interval fires: runTradingCycle() of the armed closure
TradeTimerFire(limit) ==
  /\ tradeTimer.armed
  /\ count.ops < limit
  /\ Commit(RunTradingCycle(tradeTimer.fn, [Cur EXCEPT !.count.ops = @ + 1]), {})
  /\ Quiet

\* the backend of an outstanding analyze settles
AnalyzeSettlesWith(i, out) ==
  LET c == cycles[i]
      u == [Cur EXCEPT !.cycles = RemoveAt(@, i)]
  IN /\ c.pc = "analyze"
     /\ Commit(AfterAnalyze(c.fn, AnalyzeFinish(c.fn.settings.aiProvider, out).value, u), {})
     /\ Quiet
AnalyzeSettles(outs) ==
  \E i \in 1..Len(cycles), out \in outs : AnalyzeSettlesWith(i, out)

\* the order request of an outstanding executeTrade settles
OrderSettlesWith(i, outcome) ==
  LET c == cycles[i]
      u == [Cur EXCEPT !.cycles = RemoveAt(@, i)]
  IN /\ c.pc = "execute"
     /\ Commit(AfterExecuteTrade(c.fn, ExecuteTradeFinish(c.req, outcome), u), {})
     /\ Quiet
OrderSettles(outcomes) ==
  \E i \in 1..Len(cycles), outcome \in outcomes : OrderSettlesWith(i, outcome)

\* the login form is submitted with the right credentials (the cloud
\* restore that follows, fetchFromCloud, belongs to settings persistence,
\* which is outside the model: a restored configuration is an edit)
Login(limit) ==
  /\ ~isLoggedIn
  /\ count.ops < limit
  /\ Commit([Cur EXCEPT !.isLoggedIn = TRUE, !.count.ops = @ + 1], {})
  /\ Quiet

\* the dashboard is on screen: logged in and the first tick has settled
Dashboard == isLoggedIn /\ ~isLoading

SignOut(limit) ==
  /\ Dashboard
  /\ count.ops < limit
  /\ Commit([Cur EXCEPT !.isLoggedIn = FALSE, !.count.ops = @ + 1], {})
  /\ Quiet

\* an edit of the configuration: setSettings with a new object (handleSave,
\* which some edits also call, writes only local storage, the cloud and the
\* save status)
Edit(s, limit) ==
  /\ Dashboard
  /\ count.ops < limit
  /\ s # settings
  /\ Commit([Cur EXCEPT !.settings = s, !.count.ops = @ + 1], {})
  /\ Quiet

\* the Start Bot / Stop Bot button
ToggleAutoTrading(limit) ==
  Edit([settings EXCEPT !.isAutoTrading = ~@], limit)

\* the live / simulation select
SetLiveMode(limit) ==
  \E b \in BOOLEAN : Edit([settings EXCEPT !.isLiveMode = b], limit)

\* the interval input: Math.max(1, parseInt(value) || 1)
SetIntervalMinutes(limit) ==
  \E n \in {1, 2} : Edit([settings EXCEPT !.intervalMinutes = n], limit)

\* the API key and secret inputs
SetMexcApiKey(limit) ==
  \E k \in {"", "key"} : Edit([settings EXCEPT !.mexcApiKey = k], limit)
SetMexcSecretKey(limit) ==
  \E k \in {"", "secret"} :
    Edit([settings EXCEPT !.mexcSecretKey = k], limit)

\* the symbol input
SetTradingSymbol(limit) ==
  \E sym \in Symbols : Edit([settings EXCEPT !.tradingSymbol = sym], limit)

\* the provider select
SetAiProvider(limit) ==
  \E p \in {"gemini", "openai"} : Edit([settings EXCEPT !.aiProvider = p], limit)

\* the provider key input: it edits the key of the selected provider
SetAiKey(limit) ==
  \E k \in {"sk", "sk2"} :
    Edit([settings EXCEPT
            !.geminiApiKey = IF settings.aiProvider = "gemini" THEN k ELSE @,
            !.openaiApiKey = IF settings.aiProvider = "openai" THEN k ELSE @,
            !.deepseekApiKey = IF settings.aiProvider = "deepseek" THEN k ELSE @],
         limit)

\* ------------------------------------------------------------------- Init
NoCounts == [ops |-> 0, failed |-> 0, syncs |-> 0, cycles |-> 0, intervals |-> 0,
             failedOrders |-> <<>>]

\* the useState initial values with settings s (stored or default)
Initial(s) ==
  [settings |-> s, isLoggedIn |-> FALSE, isLoading |-> TRUE, isAnalyzing |-> FALSE,
   marketData |-> Null, mexcPositions |-> <<>>,
   acct |-> [spot |-> <<>>, futures |-> <<>>, orders |-> <<>>, trades |-> <<>>,
             transfers |-> <<>>],
   mexcStatus |-> "DISCONNECTED", lastAction |-> Null, logs |-> <<>>,
   geminiClient |-> "", marketTimer |-> NoTimer, accountTimer |-> NoTimer,
   tradeTimer |-> NoTimer, marketCalls |-> <<>>, accountCalls |-> <<>>,
   cycles |-> <<>>, count |-> NoCounts]

\* the first render: every effect runs once
Mounted(s) == TradingEffect(TRUE, AccountEffect(TRUE, MarketEffect(TRUE, Initial(s))))

InitApp(stored) ==
  \E s \in stored :
    LET Start(m) ==
          /\ settings = m.settings
          /\ isLoggedIn = m.isLoggedIn
          /\ isLoading = m.isLoading
          /\ isAnalyzing = m.isAnalyzing
          /\ marketData = m.marketData
          /\ mexcPositions = m.mexcPositions
          /\ acct = m.acct
          /\ mexcStatus = m.mexcStatus
          /\ lastAction = m.lastAction
          /\ logs = m.logs
          /\ geminiClient = m.geminiClient
          /\ marketTimer = m.marketTimer
          /\ accountTimer = m.accountTimer
          /\ tradeTimer = m.tradeTimer
          /\ marketCalls = m.marketCalls
          /\ accountCalls = m.accountCalls
          /\ cycles = m.cycles
          /\ count = m.count
          /\ clock = 1
          /\ appended = <<>>
          /\ ev = "none"
          /\ svc = [op |-> "idle", phase |-> "settled"]
    IN Start(Mounted(s))

\* ------------------------------------------------- the market poller alone

NextMarket ==
  \/ MarketTimerFire(MaxTicks, MaxInFlight)
  \/ GetTickerResolves({100})
  \/ GetTickerRejects

SpecMarket == InitApp({DefaultSettings}) /\ [][NextMarket]_vars

\* ------------------------------------------- the services called directly
\* configurations analyze is called with: every provider value, each key
\* present or missing
AnalyzeSettings ==
  {[DefaultSettings EXCEPT !.aiProvider = p, !.geminiApiKey = g, !.openaiApiKey = o,
                           !.deepseekApiKey = d] :
     p \in Providers \cup {"other"}, g \in {"", "gk"}, o \in {"", "sk"}, d \in {"", "dk"}}

\* everything a backend may do with the request
AllOutcomes ==
  {Failure(k) : k \in Failures} \cup {EmptyText, Answer(EmptyObject), Answer(OddAction)}
    \cup {Answer(Decision(a, 5)) : a \in Actions}

\* aiService.analyze(s, data, side) is called
AnalyzeCall(limit) ==
  \E s \in AnalyzeSettings :
    \E a \in {AnalyzeStart(s, EnvApiKey, geminiClient)} :
       /\ svc.phase = "settled"
       /\ count.ops < limit
       /\ count' = [count EXCEPT !.ops = @ + 1]
       /\ geminiClient' = a.client
       /\ svc' = IF a.threw
                 THEN [op |-> "analyze", phase |-> "settled", s |-> s, key |-> a.key,
                       failed |-> TRUE, detail |-> a.msg, res |-> Catch(Thrown(a.msg))]
                 ELSE [op |-> "analyze", phase |-> "pending", s |-> s, key |-> a.key]
       /\ UNCHANGED <<settings, isLoggedIn, isLoading, isAnalyzing, marketData,
                      mexcPositions, acct, mexcStatus, lastAction, logs, marketTimer,
                      accountTimer, tradeTimer, marketCalls, accountCalls, cycles,
                      clock, appended, ev>>

\* the backend of the pending analyze settles
AnalyzeBackendSettles ==
  \E out \in AllOutcomes :
    LET t == AnalyzeTry(svc.s.aiProvider, out)
    IN /\ svc.op = "analyze" /\ svc.phase = "pending"
       /\ svc' = [op |-> "analyze", phase |-> "settled", s |-> svc.s, key |-> svc.key,
                  failed |-> t.threw, detail |-> IF t.threw THEN t.msg ELSE "",
                  res |-> AnalyzeFinish(svc.s.aiProvider, out)]
       /\ UNCHANGED <<settings, isLoggedIn, isLoading, isAnalyzing, marketData,
                      mexcPositions, acct, mexcStatus, lastAction, logs, geminiClient,
                      marketTimer, accountTimer, tradeTimer, marketCalls, accountCalls,
                      cycles, clock, appended, count, ev>>

InitServices == InitApp({DefaultSettings})

NextAnalyze == AnalyzeCall(MaxCalls) \/ AnalyzeBackendSettles

SpecAnalyze == InitServices /\ [][NextAnalyze]_vars

\* configurations executeTrade is called with
ExecSettings ==
  {[DefaultSettings EXCEPT !.isLiveMode = l, !.mexcApiKey = k, !.mexcSecretKey = sk,
                           !.defaultLeverage = lev, !.tradingSymbol = sym] :
     l \in BOOLEAN, k \in {"", "key"}, sk \in {"", "secret"}, lev \in {10, 20},
     sym \in Symbols}

\* mexc.executeTrade(action, s, marketPrice) is called
ExecuteTradeCall(limit) ==
  \E action \in {"LONG", "SHORT", "CLOSE"}, s \in ExecSettings, price \in Prices :
    \E x \in {ExecuteTradeStart(action, s, price)} :
       /\ svc.phase = "settled"
       /\ count.ops < limit
       /\ count' = [count EXCEPT !.ops = @ + 1]
       /\ svc' = [op |-> "executeTrade", phase |-> IF x.done THEN "settled" ELSE "pending",
                  action |-> action, s |-> s, price |-> price, call |-> x.call,
                  req |-> x.req, gateway |-> x.res, res |-> x.res]
       /\ UNCHANGED <<settings, isLoggedIn, isLoading, isAnalyzing, marketData,
                      mexcPositions, acct, mexcStatus, lastAction, logs, geminiClient,
                      marketTimer, accountTimer, tradeTimer, marketCalls, accountCalls,
                      cycles, clock, appended, ev>>

\* the order request of the pending executeTrade settles
ExecuteTradeSettles ==
  \E outcome \in GatewayOutcomes :
    /\ svc.op = "executeTrade" /\ svc.phase = "pending"
    /\ svc' = [svc EXCEPT !.phase = "settled",
                          !.gateway = PrivateRequestFinish(svc.req, outcome),
                          !.res = ExecuteTradeFinish(svc.req, outcome)]
    /\ UNCHANGED <<settings, isLoggedIn, isLoading, isAnalyzing, marketData,
                   mexcPositions, acct, mexcStatus, lastAction, logs, geminiClient,
                   marketTimer, accountTimer, tradeTimer, marketCalls, accountCalls,
                   cycles, clock, appended, count, ev>>

NextExec == ExecuteTradeCall(MaxCalls) \/ ExecuteTradeSettles

SpecExec == InitServices /\ [][NextExec]_vars

\* ------------------------------------- the signed operations called directly
SignedOps == Queries \cup {"executeTrade"}

\* configurations a signed operation is called with: each credential present
\* or missing, no proxy, a blank one, and a proxy of each of the two styles
GatewaySettings ==
  {[DefaultSettings EXCEPT !.isLiveMode = TRUE, !.mexcApiKey = k, !.mexcSecretKey = sk,
                           !.corsProxyUrl = proxy] :
     k \in {"", "key"}, sk \in {"", "secret"},
     proxy \in {<<>>, <<" ">>, <<"p", "?", "u", "r", "l", "=">>, <<"p">>, <<" ", "p", "/">>}}

\* values a response may hold where a list is expected
ListFields(op) ==
  {JsUndefined, JsNull, JsZero, JsObject, JsArray(<<>>), JsArray(RowsFor(op))}

\* everything fetch may settle with for a request of op: the refusals carry
\* each of a few msg texts, some containing the letters of Fetch, and some
\* bodies have another content type
GatewayResponses(op) ==
  {TransportFailure}
    \cup {OkData(v) : v \in ListFields(op)}
    \cup {OkBalances(v) : v \in ListFields(op)}
    \cup {OkArray(RowsFor(op)), OkArray(<<>>)}
    \cup {Refused(status, code, msg) :
            status \in {200, 400}, code \in {602, 0},
            msg \in {<<>>, NoFunds, Fetch, <<"p", "r", "e">> \o Fetch \o <<"e", "d">>,
                     <<"f", "e", "t", "c">>}}
    \cup {TextResponse(FALSE, 403, CorsAnywhere \o <<"/">> \o CorsDemo, FALSE, ArrayBody(<<>>)),
          TextResponse(FALSE, 502, Fetch, FALSE, ArrayBody(<<>>)),
          TextResponse(TRUE, 200, NoFunds, FALSE, ArrayBody(<<>>)),
          TextResponse(TRUE, 200, <<"[", "]">>, TRUE, ArrayBody(RowsFor(op))),
          TextResponse(TRUE, 200, <<"{", "}">>, TRUE, OkData(JsArray(RowsFor(op))).body)}

\* no response yet
NoResponse ==
  [kind |-> "none", ok |-> FALSE, status |-> 0, parses |-> FALSE, body |-> ArrayBody(<<>>),
   text |-> <<>>]

\* a signed operation up to fetch, and once fetch settled
SignedStart(op, s) ==
  IF op = "executeTrade" THEN ExecuteTradeStart("LONG", s, 100) ELSE QueryStart(op, s)
SignedFinish(op, resp) ==
  IF op = "executeTrade" THEN PrivateRequestSettle(resp) ELSE QueryFinish(op, resp)

\* mexc.<op>(s) is called. gateway is what privateRequest settled with, res
\* what the operation settled with.
SignedCall(ops, limit) ==
  \E op \in ops, s \in GatewaySettings :
    \E x \in {SignedStart(op, s)} :
    \E p \in {PrivateRequestStart(x.call.baseUrl, x.call.endpoint, x.call.method, s,
                                  x.call.params)} :
       /\ svc.phase = "settled"
       /\ count.ops < limit
       /\ count' = [count EXCEPT !.ops = @ + 1]
       /\ svc' = [op |-> op, phase |-> IF x.done THEN "settled" ELSE "pending", s |-> s,
                  call |-> x.call, req |-> x.req, resp |-> NoResponse,
                  gateway |-> IF p.threw THEN Thrown(p.msg) ELSE Null, res |-> x.res]
       /\ UNCHANGED <<settings, isLoggedIn, isLoading, isAnalyzing, marketData,
                      mexcPositions, acct, mexcStatus, lastAction, logs, geminiClient,
                      marketTimer, accountTimer, tradeTimer, marketCalls, accountCalls,
                      cycles, clock, appended, ev>>

\* the fetch of the pending operation settles
SignedSettles ==
  \E resp \in GatewayResponses(svc.op) :
    /\ svc.op \in SignedOps /\ svc.phase = "pending"
    /\ svc' = [svc EXCEPT !.phase = "settled", !.resp = resp,
                          !.gateway = PrivateRequestSettle(resp),
                          !.res = SignedFinish(svc.op, resp)]
    /\ UNCHANGED <<settings, isLoggedIn, isLoading, isAnalyzing, marketData,
                   mexcPositions, acct, mexcStatus, lastAction, logs, geminiClient,
                   marketTimer, accountTimer, tradeTimer, marketCalls, accountCalls,
                   cycles, clock, appended, count, ev>>

\* --------------------------------------------- the account synchronizer alone
\* what each query of a sync may be answered with
FineSyncs ==
  {SyncAnswer(a, b, c, d, e, f) :
     a \in {OkBalances(JsArray(RowsFor("getSpotBalance"))), TransportFailure},
     b \in {OkData(JsArray(RowsFor("getFuturesBalance"))), OkData(JsNull)},
     c \in {OkData(JsArray(RowsFor("getOpenPositions"))), Refused(200, 602, NoFunds)},
     d \in {OkData(JsArray(RowsFor("getOpenOrders"))), OkData(JsObject)},
     e \in {OkData(JsArray(RowsFor("getTradeHistory")))},
     f \in {OkArray(RowsFor("getTransferHistory")), Refused(400, 700, NoFunds)}}

\* a terminal whose exchange credentials are configured
AccountSettings ==
  {[DefaultSettings EXCEPT !.mexcApiKey = "key", !.mexcSecretKey = "secret"]}


NextAccount ==
  \/ Login(MaxOps)
  \/ AccountTimerFire(MaxOps)
  \/ AccountResolves(FineSyncs)
  \/ AccountRejects(FineSyncs)

SpecAccount == InitApp(AccountSettings) /\ [][NextAccount]_vars

\* ------------------------------------------------------ the gateway alone
NextGateway == SignedCall(SignedOps, MaxCalls) \/ SignedSettles

SpecGateway == InitServices /\ [][NextGateway]_vars

\* --------------- the transfer history: called directly, and within a sync
NextTransfers ==
  \/ SignedCall({"getTransferHistory"}, MaxCalls)
  \/ SignedSettles
  \/ Login(MaxOps)
  \/ AccountTimerFire(MaxOps)
  \/ AccountResolves(FineSyncs)
  \/ AccountRejects(FineSyncs)

SpecTransfers == InitApp(AccountSettings) /\ [][NextTransfers]_vars

\* --------------------------------------------------- claims: market poller
\* the last k elements of the samples appended so far
LastAppended(k) == [j \in 1..k |-> appended[Len(appended) - k + j]]

\* C9: after any sequence of market ticks, successful or failed, the history
\* of the published snapshot has at most 50 entries and is exactly the last
\* min(n, 50) of the n samples the successful ticks appended, in the order
\* they were appended; before the first success nothing is published.
C9_HistoryIsLastFifty ==
  IF marketData.present
  THEN /\ Len(marketData.history) <= 50
       /\ Len(marketData.history) = IF Len(appended) < 50 THEN Len(appended) ELSE 50
       /\ marketData.history = LastAppended(Len(marketData.history))
  ELSE appended = <<>>

\* more than 50 samples were appended, a tick failed on the way, and the
\* oldest sample is gone from the history
C9_Witness ==
  /\ marketData.present
  /\ Len(appended) > 50
  /\ count.failed = 1
  /\ Len(marketData.history) = 50
  /\ marketData.history[1] # appended[1]
  /\ marketData.history[50] = appended[Len(appended)]

\* C10: a market tick whose getTicker fails leaves the published snapshot,
\* history included, as it was, and leaves a polling interval armed.
C10_FailedTickKeepsSnapshot ==
  [][GetTickerRejects => (marketData' = marketData /\ marketTimer'.armed)]_vars

\* C10: the polling interval is armed in every state, so a later tick runs
C10_Witness ==
  /\ ev = "rejected"
  /\ marketData.present
  /\ Len(marketData.history) >= 2
  /\ marketTimer.armed
  /\ count.ops < MaxTicks

\* ------------------------------------------------------- the whole terminal
\* settings found in local storage at start: the defaults, or a configured
\* terminal (provider key and exchange credentials entered earlier)
StoredSettings ==
  {DefaultSettings} \cup
  {[DefaultSettings EXCEPT !.aiProvider = "openai", !.openaiApiKey = "sk",
                           !.mexcApiKey = "key", !.mexcSecretKey = "secret",
                           !.isAutoTrading = a, !.isLiveMode = a] : a \in BOOLEAN}

\* what a decision backend answers in Spec
BackendOutcomes ==
  {Answer(Decision("LONG", 5)), Answer(EmptyObject), Failure("unreachable")}

Init == InitApp(StoredSettings)

Next ==
  \/ MarketTimerFire(MaxOps, MaxOps + 2)
  \/ GetTickerResolves({100})
  \/ GetTickerRejects
  \/ AccountTimerFire(MaxOps)
  \/ AccountResolves(CoarseSyncs)
  \/ AccountRejects(CoarseSyncs)
  \/ TradeTimerFire(MaxOps)
  \/ AnalyzeSettles(BackendOutcomes)
  \/ OrderSettles({"ok", "rejected"})
  \/ Login(MaxOps)
  \/ SignOut(MaxOps)
  \/ ToggleAutoTrading(MaxOps)
  \/ SetLiveMode(MaxOps)
  \/ SetIntervalMinutes(MaxOps)

Spec == Init /\ [][Next]_vars

\* a configured terminal trading live whose operator edits the
\* configuration while cycles are in flight
CycleSettings ==
  {[DefaultSettings EXCEPT !.aiProvider = p, !.geminiApiKey = "sk",
                           !.openaiApiKey = "sk", !.mexcApiKey = "key",
                           !.mexcSecretKey = "secret", !.isAutoTrading = TRUE,
                           !.isLiveMode = TRUE] : p \in {"gemini", "openai"}}


NextCycle ==
  \/ GetTickerResolves({100})
  \/ AnalyzeSettles({Answer(Decision("LONG", 5)), Failure("unreachable")})
  \/ OrderSettles({"ok", "rejected"})
  \/ Login(MaxOps)
  \/ SetAiProvider(MaxOps)
  \/ SetAiKey(MaxOps)
  \/ SetLiveMode(MaxOps)
  \/ SetTradingSymbol(MaxOps)
  \/ SetMexcApiKey(MaxOps)
  \/ SetMexcSecretKey(MaxOps)

SpecCycle == InitApp(CycleSettings) /\ [][NextCycle]_vars

\* the same terminal when every analyze and executeTrade call settles: a
\* pending promise of either is eventually resolved or rejected
SpecCycleSettling ==
  /\ SpecCycle
  /\ WF_vars(AnalyzeSettles({Answer(Decision("LONG", 5)), Failure("unreachable")}))
  /\ WF_vars(OrderSettles({"ok", "rejected"}))

\* the same terminal with its account synchronizer: the exchange reports an
\* empty account or one open BTCUSDT position, and the operator may change
\* the trading symbol
SpecPositions ==
  /\ InitApp(CycleSettings)
  /\ [][\/ NextCycle
        \/ AccountTimerFire(MaxOps)
        \/ AccountResolves(CoarseSyncs)
        \/ AccountRejects(CoarseSyncs)]_vars

\* the market poller of a terminal that does not trade, whose operator logs
\* in and changes the trading symbol while ticks are outstanding
SpecSymbol ==
  /\ InitApp({DefaultSettings})
  /\ [][\/ MarketTimerFire(MaxOps + 1, MaxInFlight)
        \/ GetTickerResolves({100})
        \/ GetTickerRejects
        \/ Login(MaxOps + 1)
        \/ SetTradingSymbol(MaxOps + 1)]_vars

\* ------------------------------------------------ claims: trading cycle
\* C1: at most one invocation of runTradingCycle is in flight at any
\* instant, so at most one executeTrade call is outstanding.
C1_OneCycleInFlight ==
  /\ Len(cycles) <= 1
  /\ Cardinality({i \in 1..Len(cycles) : cycles[i].pc = "execute"}) <= 1

\* C2: while auto-trading stays enabled and the configuration is unchanged,
\* the publication of a market snapshot or of a position list starts no
\* trading cycle and leaves the armed trading interval as it is.
C2_PublicationStartsNoCycle ==
  [][((GetTickerResolves({100}) \/ AccountResolves(CoarseSyncs)) /\ settings.isAutoTrading)
       => (count'.cycles = count.cycles /\ tradeTimer' = tradeTimer)]_vars

\* C3: refreshMarket is never started while an earlier getTicker is
\* outstanding, and refreshAccountData is never started while an earlier
\* sync's queries are outstanding.
C3_DriversSingleFlight ==
  /\ Len(marketCalls) <= 1
  /\ Len(accountCalls) <= 1

\* the cycles awaiting executeTrade for a well-formed non-WAIT decision
Executing ==
  {i \in 1..Len(cycles) :
     cycles[i].pc = "execute" /\ cycles[i].decision.action \in Actions \ {"WAIT"}}

\* C8 as stated: the order of a live cycle carries the leverage the
\* decision requested.
C8_OrderCarriesRequestedLeverage ==
  \A i \in Executing : cycles[i].req.params.leverage = cycles[i].decision.leverage

\* C8 as amended: the order of a live cycle carries the default leverage of
\* the configuration the cycle started with, whatever the decision requested.
C8_OrderCarriesConfiguredLeverage ==
  \A i \in Executing :
    cycles[i].req.params.leverage = cycles[i].fn.settings.defaultLeverage

\* a live cycle whose decision asked for 5x has its order outstanding at 10x
C8_Witness ==
  \E i \in Executing :
    /\ cycles[i].decision = Decision("LONG", 5)
    /\ cycles[i].fn.settings.isLiveMode
    /\ cycles[i].req.params.leverage = 10
    /\ cycles[i].req.endpoint = "/futures/api/v1/private/order/create"

\* ------------------------------------------------- claims: the services
Analyzed == svc.op = "analyze" /\ svc.phase = "settled"

\* C4: analyze never throws, and whenever the key is missing, the provider
\* is unsupported, or the backend is unreachable, answers with an error or
\* with unparseable content, it returns WAIT with leverage 1, confidence 0
\* and the failure detail as reason.
C4_FailuresBecomeWait ==
  Analyzed =>
    /\ ~svc.res.threw
    /\ svc.failed =>
         /\ svc.res.value.action = "WAIT"
         /\ svc.res.value.leverage = 1
         /\ svc.res.value.confidence = 0
         /\ svc.res.value.reason = <<"Analysis failed: ", svc.detail>>

\* every provider has failed on a missing key and on its backend
C4_Witness ==
  /\ Analyzed
  /\ svc.failed
  /\ svc.s.aiProvider = "deepseek"
  /\ svc.key = "dk"
  /\ svc.detail = "Cannot read properties of undefined"
  /\ svc.res = Returned(WaitDecision(svc.detail))

\* C5: every decision analyze returns has an action among LONG, SHORT, CLOSE
\* and WAIT (a JSON answer that is no TradeDecision yields WAIT).
C5_ActionIsOneOfFour ==
  Analyzed => (~svc.res.threw /\ svc.res.value.action \in Actions)

Executed == svc.op = "executeTrade"

\* C6: with isLiveMode false executeTrade calls no privateRequest, dispatches
\* no request, and returns at once a position whose entryPrice and
\* currentPrice are the marketPrice argument.
C6_SimulationIsLocal ==
  (Executed /\ ~svc.s.isLiveMode) =>
    /\ svc.phase = "settled"
    /\ svc.call = Null
    /\ svc.req = Null
    /\ ~svc.res.threw
    /\ svc.res.value.entryPrice = svc.price
    /\ svc.res.value.currentPrice = svc.price

C6_Witness ==
  /\ Executed
  /\ ~svc.s.isLiveMode
  /\ svc.price = 101
  /\ svc.action = "SHORT"
  /\ svc.res.value.entryPrice = 101

\* C7: in live mode executeTrade makes one privateRequest call, a POST to the
\* order-creation endpoint (signed under the configured secret when sent),
\* with side 1 exactly for LONG, 2 exactly for SHORT, 3 exactly for CLOSE,
\* vol 1, type 5, openType 1 and the configured default leverage, and settles
\* with what privateRequest returned or threw.
C7_LiveOrderRequest ==
  (Executed /\ svc.s.isLiveMode) =>
    /\ svc.call.present
    /\ svc.call.method = "POST"
    /\ svc.call.endpoint = "/futures/api/v1/private/order/create"
    /\ (svc.call.params.side = 1) = (svc.action = "LONG")
    /\ (svc.call.params.side = 2) = (svc.action = "SHORT")
    /\ (svc.call.params.side = 3) = (svc.action = "CLOSE")
    /\ svc.call.params.vol = 1
    /\ svc.call.params.type = 5
    /\ svc.call.params.openType = 1
    /\ svc.call.params.leverage = svc.s.defaultLeverage
    /\ svc.call.params.symbol = svc.s.tradingSymbol
    /\ svc.req.present =>
         /\ svc.req.method = "POST"
         /\ svc.req.endpoint = svc.call.endpoint
         /\ svc.req.params = svc.call.params
         /\ svc.req.apiKey = svc.s.mexcApiKey
         /\ svc.req.signature = Sign(QueryParams(svc.call.params, Timestamp),
                                     svc.s.mexcSecretKey)
    /\ svc.phase = "settled" => svc.res = svc.gateway

\* a live SHORT order at 20x was rejected by the exchange
C7_Witness ==
  /\ Executed
  /\ svc.s.isLiveMode
  /\ svc.phase = "settled"
  /\ svc.action = "SHORT"
  /\ svc.s.defaultLeverage = 20
  /\ svc.req.present
  /\ svc.res = Thrown(Message("", NoFunds, ""))

\* ------------------------------------------- claims: account synchronizer
\* a step in which the Promise.all of a sync settled
SyncSettled == Len(accountCalls') < Len(accountCalls)

\* C11: an account sync is all-or-nothing: when every query succeeds, the six
\* published account values become that sync's results and the status
\* CONNECTED; when a query throws, no published account value changes, the
\* status becomes ERROR and an ERROR entry is added to the log.
C11_SyncAllOrNothing ==
  [][SyncSettled =>
       LET res == SyncResults(ev'.sync)
       IN IF \A q \in Queries : ~res[q].threw
          THEN /\ acct'.spot = res["getSpotBalance"].value
               /\ acct'.futures = res["getFuturesBalance"].value
               /\ mexcPositions' = res["getOpenPositions"].value
               /\ acct'.orders = res["getOpenOrders"].value
               /\ acct'.trades = res["getTradeHistory"].value
               /\ acct'.transfers = res["getTransferHistory"].value
               /\ mexcStatus' = "CONNECTED"
               /\ logs' = logs
          ELSE /\ acct' = acct
               /\ mexcPositions' = mexcPositions
               /\ mexcStatus' = "ERROR"
               /\ Len(logs') = Len(logs) + 1
               /\ logs'[1].type = "ERROR"]_vars

\* a sync failed after an earlier one had published a funded account, and
\* the funded account is still what is published
C11_Witness ==
  /\ mexcStatus = "ERROR"
  /\ count.syncs = 2
  /\ accountCalls = <<>>
  /\ Len(logs) = 1
  /\ logs[1].type = "ERROR"
  /\ acct.spot # <<>>
  /\ acct.orders # <<>>
  /\ Len(mexcPositions) = 1

\* the sync that settled in this step was answered with lists by every query
\* but the transfer history, whose request failed
OnlyTransfersFailed(rs) ==
  /\ PrivateRequestSettle(rs["getTransferHistory"]).threw
  /\ \A q \in Queries \ {"getTransferHistory"} : ~QueryFinish(q, rs[q]).threw

\* C12: getTransferHistory never throws: a failure of its request, missing
\* credentials included, yields the empty list; and a sync in which only the
\* transfer-history request fails publishes the other five lists with
\* transfers = [] and status CONNECTED.
C12_TransferFailureIsEmptyList ==
  /\ []((svc.op = "getTransferHistory" /\ svc.phase = "settled") =>
          /\ ~svc.res.threw
          /\ svc.gateway.threw => svc.res.value = <<>>)
  /\ [][(SyncSettled /\ OnlyTransfersFailed(ev'.sync)) =>
          LET res == SyncResults(ev'.sync)
          IN /\ mexcStatus' = "CONNECTED"
             /\ acct'.transfers = <<>>
             /\ acct'.spot = res["getSpotBalance"].value
             /\ acct'.futures = res["getFuturesBalance"].value
             /\ mexcPositions' = res["getOpenPositions"].value
             /\ acct'.orders = res["getOpenOrders"].value
             /\ acct'.trades = res["getTradeHistory"].value
             /\ logs' = logs]_vars

\* a sync whose transfer-history request the exchange refused has published
\* a funded account, after a direct call without credentials returned []
C12_Witness ==
  /\ svc.op = "getTransferHistory"
  /\ svc.phase = "settled"
  /\ svc.s.mexcSecretKey = ""
  /\ svc.gateway = Thrown(Lit("MEXC API Keys are missing."))
  /\ svc.res = Returned(<<>>)
  /\ Len(accountCalls) < count.syncs
  /\ OnlyTransfersFailed(ev.sync)
  /\ mexcStatus = "CONNECTED"
  /\ acct.transfers = <<>>
  /\ acct.spot # <<>>
  /\ logs = <<>>

\* ----------------------------------------------------- claims: the gateway
\* a signed operation has been called
Called == svc.op \in SignedOps

\* C13: a signed operation called with an empty API key or an empty secret
\* has its privateRequest fail with the credentials-missing error, with no
\* signature computed and no request dispatched.
C13_MissingCredentialsFailFirst ==
  (Called /\ (svc.s.mexcApiKey = "" \/ svc.s.mexcSecretKey = "")) =>
    /\ svc.phase = "settled"
    /\ svc.req = Null
    /\ svc.resp = NoResponse
    /\ svc.gateway = Thrown(Lit("MEXC API Keys are missing."))

\* every signed operation has been called with the key set and the secret
\* empty; here the live order
C13_Witness ==
  /\ Called
  /\ svc.op = "executeTrade"
  /\ svc.s.mexcApiKey = "key"
  /\ svc.s.mexcSecretKey = ""
  /\ svc.req = Null
  /\ svc.res = Thrown(Lit("MEXC API Keys are missing."))

\* C14: in every signed request the string given to sign is the query of the
\* transmitted target URL, entry for entry in the same order with the
\* timestamp as its last entry, and the signature over it follows the query
\* in the URL.
C14_SignedQueryIsSentQuery ==
  (Called /\ svc.req.present) =>
    LET url == svc.req.targetUrl
        keys == ObjectKeys(svc.call.params)
    IN /\ url.query = svc.req.signed
       /\ url.signature = Sign(svc.req.signed, svc.s.mexcSecretKey)
       /\ Len(url.query) = Len(keys) + 1
       /\ \A i \in 1..Len(keys) :
            url.query[i] = <<keys[i], FormEncoded(svc.call.params[keys[i]])>>
       /\ url.query[Len(url.query)] = <<"timestamp", FormEncoded(Timestamp)>>
       /\ url.baseUrl = svc.call.baseUrl
       /\ url.endpoint = svc.call.endpoint
       /\ IF Trim(svc.s.corsProxyUrl) = <<>>
          THEN svc.req.requestUrl = url
          ELSE IF Contains(svc.s.corsProxyUrl, UrlParam)
               THEN svc.req.requestUrl.target = <<"encodeURIComponent", url>>
               ELSE svc.req.requestUrl.target = url

\* a request with parameters went out behind a proxy of the ?url= style
C14_Witness ==
  /\ Called
  /\ svc.req.present
  /\ svc.op = "getTradeHistory"
  /\ Len(svc.req.signed) = 2
  /\ svc.req.signed[1] = <<"states", FormEncoded("3,4")>>
  /\ Contains(svc.s.corsProxyUrl, UrlParam)
  /\ svc.req.requestUrl.target = <<"encodeURIComponent", svc.req.targetUrl>>

\* C19: when the exchange answers a signed request with JSON carrying a
\* non-success code and a message, the error privateRequest raises carries
\* exactly that message, whatever its text.
C19_ExchangeMessageVerbatim ==
  (/\ Called
   /\ svc.resp.kind = "json"
   /\ svc.resp.body.code \notin {Undefined, 0, 200}
   /\ svc.resp.body.msg # <<>>)
    => svc.gateway = Thrown(Message("", svc.resp.body.msg, ""))

\* the operations that read the list from result.data, and the one that
\* reads it from data.balances
DataOps == {"getFuturesBalance", "getOpenPositions", "getOpenOrders", "getTradeHistory"}
ListField(op, body) == IF op = "getSpotBalance" THEN body.balances ELSE body.data

\* C20: a successful response whose list field is absent, null or present but
\* no array makes getFuturesBalance, getOpenPositions, getOpenOrders,
\* getTradeHistory and getSpotBalance return the empty list, never an error.
C20_NoArrayIsEmptyList ==
  (/\ svc.op \in DataOps \cup {"getSpotBalance"}
   /\ svc.phase = "settled"
   /\ ~svc.gateway.threw
   /\ svc.gateway.value.t = "object"
   /\ ListField(svc.op, svc.gateway.value).t # "array")
    => svc.res = Returned(<<>>)

\* ------------------------------------------------ claims: trading timer
\* C16: when auto-trading is switched off or the interval changes, the armed
\* trading timer is cleared before a new one is armed: at most one trading
\* interval is set and not cleared, the armed one has the configured
\* period, and while auto-trading is disabled no trading timer is armed
\* and no step that ends with auto-trading disabled starts a trading cycle.
C16_TradingTimerFollowsSettings ==
  /\ [](/\ count.intervals <= 1
        /\ tradeTimer.armed <=> count.intervals = 1
        /\ tradeTimer.armed =>
             /\ tradeTimer.ms = settings.intervalMinutes * 60000
             /\ tradeTimer.fn.settings = settings
        /\ ~settings.isAutoTrading => ~tradeTimer.armed /\ count.intervals = 0)
  /\ [][~settings'.isAutoTrading => count'.cycles = count.cycles]_vars

\* auto-trading was switched off after a cycle had started and while it is
\* still awaiting its decision: the timer that was armed is gone
C16_Witness ==
  /\ ~settings.isAutoTrading
  /\ count.ops >= 1
  /\ count.cycles >= 1
  /\ Len(cycles) >= 1
  /\ ~tradeTimer.armed
  /\ count.intervals = 0

\* ------------------------------------------ claims: configuration snapshot
\* the API key of the provider that configuration s selects
ProviderKey(s) ==
  CASE s.aiProvider = "gemini" -> s.geminiApiKey
    [] s.aiProvider = "openai" -> s.openaiApiKey
    [] OTHER -> s.deepseekApiKey

\* cycle c took every value of its order from the configuration it
\* captured when it started
OrderOfSnapshot(c) ==
  LET s == c.fn.settings
  IN /\ s.isLiveMode
     /\ c.req.apiKey = s.mexcApiKey
     /\ c.req.params.symbol = s.tradingSymbol
     /\ c.req.params.leverage = s.defaultLeverage
     /\ c.req.signature = Sign(QueryParams(c.req.params, Timestamp), s.mexcSecretKey)

\* C17: a trading cycle uses the configuration captured when it started,
\* whatever is edited while it awaits: its analysis request is made with the
\* provider key of that configuration, it submits an order only if that
\* configuration is live, and the order's symbol, leverage and credentials
\* are those of that configuration.
C17_CycleUsesOneSnapshot ==
  \A i \in 1..Len(cycles) :
    /\ cycles[i].pc = "analyze" => cycles[i].key = ProviderKey(cycles[i].fn.settings)
    /\ cycles[i].pc = "execute" => OrderOfSnapshot(cycles[i])

\* the part of C17 that is about the order: it holds
C17_OrderUsesSnapshot ==
  \A i \in 1..Len(cycles) : cycles[i].pc = "execute" => OrderOfSnapshot(cycles[i])

\* an order is outstanding whose cycle started under a configuration the
\* operator has edited since
C17_EditedMidCycle ==
  \E i \in 1..Len(cycles) :
    /\ cycles[i].pc = "execute"
    /\ cycles[i].fn.settings.tradingSymbol # settings.tradingSymbol

\* ------------------------------------------------- claims: operator log
\* an executeTrade call of a trading cycle threw in this step
OrderFailed == Len(count'.failedOrders) > Len(count.failedOrders)

\* C18: whenever executeTrade throws in a live trading cycle, that step puts
\* an ERROR entry carrying the thrown message at the head of the operator
\* log, and the cycle ends.
C18_OrderFailureIsLogged ==
  [][OrderFailed =>
       /\ Len(logs') = Len(logs) + 1 \/ Len(logs') = Len(logs) + 2
       /\ logs'[1] = [type |-> "ERROR",
                      message |-> <<"AI analysis failed: ",
                                    count'.failedOrders[Len(count'.failedOrders)]>>]
       /\ Len(cycles') = Len(cycles) - 1]_vars

\* the exchange rejected a live order and the log shows its message first
C18_Witness ==
  /\ count.failedOrders # <<>>
  /\ count.failedOrders[Len(count.failedOrders)] = Message("", NoFunds, "")
  /\ logs # <<>>
  /\ logs[1] = [type |-> "ERROR",
                message |-> <<"AI analysis failed: ", Message("", NoFunds, "")>>]

\* ------------------------------------------- claims: published account state
\* the six published account values
Published ==
  [spot |-> acct.spot, futures |-> acct.futures, positions |-> mexcPositions,
   orders |-> acct.orders, trades |-> acct.trades, transfers |-> acct.transfers]

\* what a sync whose queries were answered with rs publishes
WholeSnapshot(rs) == PromiseAll(SyncResults(rs), "getSpotBalance").value

\* C21: the published balances, positions, orders, trades and transfers are
\* at every instant the results of one account sync (or the initial empty
\* lists), also when syncs settle in another order than they started: only a
\* sync that resolved changes them, and it replaces all of them at once.
C21_PublishedIsOneSync ==
  /\ [](\/ Published = WholeSnapshot(
                         SyncAnswer(OkBalances(JsArray(<<>>)), OkData(JsArray(<<>>)),
                                    OkData(JsArray(<<>>)), OkData(JsArray(<<>>)),
                                    OkData(JsArray(<<>>)), OkArray(<<>>)))
        \/ \E rs \in FineSyncs \cup CoarseSyncs :
             Rejecting(rs) = {} /\ Published = WholeSnapshot(rs))
  /\ [][Published' # Published =>
          /\ SyncSettled
          /\ Rejecting(ev'.sync) = {}
          /\ Published' = WholeSnapshot(ev'.sync)]_vars

\* two syncs were started and both have settled; what is published is the
\* whole answer of the one that resolved last (no futures balance, one
\* deposit, one open position)
C21_Witness ==
  /\ count.syncs = 2
  /\ accountCalls = <<>>
  /\ mexcStatus = "CONNECTED"
  /\ Rejecting(ev.sync) = {}
  /\ Published = WholeSnapshot(ev.sync)
  /\ acct.futures = <<>>
  /\ acct.transfers # <<>>
  /\ Len(mexcPositions) = 1

\* ------------------------------------- claims: exchange calls of a cycle
\* no refreshAccountData call in this step
NoResync ==
  /\ accountCalls' = accountCalls
  /\ count'.syncs = count.syncs
  /\ mexcStatus' = mexcStatus

\* the order request executeTrade dispatches for decision d under the
\* configuration cycle c captured
OrderRequest(c, d) ==
  PrivateRequestStart(BaseFuturesUrl, "/futures/api/v1/private/order/create", "POST",
                      c.fn.settings, OrderParams(d.action, c.fn.settings)).req

\* C22: a cycle whose decision is WAIT or whose configuration is in
\* simulation mode makes no exchange call (no order, no account refresh); a
\* cycle with another decision in live mode makes one executeTrade call, and
\* once that call has succeeded, and not before, calls refreshAccountData
\* once (which starts a sync when its gate is open), and makes no other call.
C22_CycleExchangeCalls ==
  [][\A i \in 1..Len(cycles) :
       /\ \A out \in AllOutcomes :
            AnalyzeSettlesWith(i, out) =>
              /\ NoResync
              /\ IF lastAction'.action # "WAIT" /\ cycles[i].fn.settings.isLiveMode
                 THEN \/ /\ cycles' = Append(RemoveAt(cycles, i),
                                             [pc |-> "execute", fn |-> cycles[i].fn,
                                              decision |-> lastAction',
                                              req |-> OrderRequest(cycles[i], lastAction')])
                         /\ count'.failedOrders = count.failedOrders
                      \/ /\ cycles' = RemoveAt(cycles, i)
                         /\ Len(count'.failedOrders) = Len(count.failedOrders) + 1
                 ELSE /\ cycles' = RemoveAt(cycles, i)
                      /\ count'.failedOrders = count.failedOrders
       /\ \A outcome \in GatewayOutcomes :
            OrderSettlesWith(i, outcome) =>
              /\ cycles' = RemoveAt(cycles, i)
              /\ IF Len(count'.failedOrders) > Len(count.failedOrders)
                 THEN NoResync
                 ELSE IF cycles[i].fn.refreshAccountData.isLoggedIn
                      THEN /\ accountCalls' = Append(accountCalls, cycles[i].fn.refreshAccountData)
                           /\ count'.syncs = count.syncs + 1
                      ELSE /\ accountCalls' = accountCalls
                           /\ mexcStatus' = "DISCONNECTED"]_vars

\* after the login and nothing else a second sync has started: the one a
\* live cycle asked for once its LONG order had succeeded
C22_Witness ==
  /\ isLoggedIn
  /\ count.ops = 1
  /\ count.syncs = 2
  /\ count.failedOrders = <<>>
  /\ lastAction = Decision("LONG", 5)
  /\ settings.isLiveMode
  /\ Len(accountCalls) >= 1

\* ------------------------------------------------ claims: the account gate
\* a configuration with both exchange credentials
HasCredentials(s) == s.mexcApiKey # "" /\ s.mexcSecretKey # ""

\* C23: no account sync is started while the operator is logged out or an
\* exchange credential is empty: a refreshAccountData call made then sets
\* the status DISCONNECTED and leaves the published account values as they
\* are; and the account timer is armed only while logged in.
C23_NoSyncWhileLoggedOut ==
  /\ [](accountTimer.armed => isLoggedIn)
  /\ [][count'.syncs > count.syncs => (isLoggedIn' /\ HasCredentials(settings'))]_vars
  /\ [][(AccountTimerFire(MaxOps) /\ ~HasCredentials(settings)) =>
          /\ mexcStatus' = "DISCONNECTED"
          /\ Published' = Published
          /\ accountCalls' = accountCalls]_vars

\* the parts of C23 that are about the timer and its closure: they hold
C23_TimerGated ==
  /\ [](accountTimer.armed <=> isLoggedIn)
  /\ [](accountTimer.armed =>
          accountTimer.fn = RefreshAccountDataFn(settings, isLoggedIn))
  /\ [][(AccountTimerFire(MaxOps) /\ ~HasCredentials(settings)) =>
          /\ mexcStatus' = "DISCONNECTED"
          /\ Published' = Published
          /\ accountCalls' = accountCalls]_vars

\* the operator has signed out and the account timer is cleared
C23_SignedOut ==
  /\ ~isLoggedIn
  /\ count.ops = 2
  /\ ~accountTimer.armed
  /\ count.syncs >= 1

\* ------------------------------------------------ claims: return to IDLE
\* C24: when every analyze and executeTrade call settles, every trading
\* cycle in flight eventually ends, and the step that ends a cycle sets the
\* analyzing flag to false, whether the decision was WAIT, the order
\* succeeded or a call failed; while no cycle is in flight the flag is false.
C24_CycleReturnsToIdle ==
  /\ [](cycles = <<>> => ~isAnalyzing)
  /\ [][Len(cycles') < Len(cycles) => ~isAnalyzing']_vars
  /\ (cycles # <<>>) ~> (cycles = <<>>)
  /\ isAnalyzing ~> ~isAnalyzing

\* two cycles have run to their end, one of them through a rejected order,
\* and the terminal is idle
C24_Witness ==
  /\ count.cycles = 2
  /\ cycles = <<>>
  /\ ~isAnalyzing
  /\ Len(count.failedOrders) >= 1
  /\ lastAction = Decision("LONG", 5)

\* --------------------------------------------- claims: orders and the login
\* the live orders outstanding
Outstanding(cs) == {i \in 1..Len(cs) : cs[i].pc = "execute"}

\* C25: no live order is submitted while the operator is logged out: a step
\* in which a trading cycle dispatches its order request is taken with
\* isLoggedIn true.
C25_NoOrderWhileLoggedOut ==
  [][Cardinality(Outstanding(cycles')) > Cardinality(Outstanding(cycles)) => isLoggedIn]_vars

\* the terminal was started with stored settings that have auto-trading and
\* live mode on, nobody has logged in or clicked anything, and a signed order
\* request is outstanding
C25_OrderBeforeLogin ==
  /\ ~isLoggedIn
  /\ count.ops = 0
  /\ \E i \in Outstanding(cycles) :
       /\ cycles[i].req.present
       /\ cycles[i].req.endpoint = "/futures/api/v1/private/order/create"
       /\ cycles[i].req.apiKey = "key"

\* ------------------------------------------------ claims: position side
\* the side of the open position on symbol, NONE when there is none
SideOn(positions, symbol) ==
  LET held == {j \in 1..Len(positions) : positions[j].symbol = symbol}
  IN IF held = {} THEN "NONE"
     ELSE positions[CHOOSE j \in held : \A k \in held : j <= k].side

\* C26: the position side a cycle hands to analyze is NONE when the
\* published position list is empty, and otherwise the side of the open
\* position on the configured trading symbol: a position on another symbol
\* never determines it.
C26_SideIsOfTradingSymbol ==
  \A i \in 1..Len(cycles) :
    cycles[i].pc = "analyze" =>
      cycles[i].activeSide =
        IF cycles[i].fn.mexcPositions = <<>> THEN "NONE"
        ELSE SideOn(cycles[i].fn.mexcPositions, cycles[i].fn.settings.tradingSymbol)

\* the part of C26 about the empty list: it holds
C26_EmptyListIsNone ==
  \A i \in 1..Len(cycles) :
    (cycles[i].pc = "analyze" /\ cycles[i].fn.mexcPositions = <<>>) =>
      cycles[i].activeSide = "NONE"

\* a cycle trading ETHUSDT awaits its analysis with the side of the open
\* BTCUSDT position
C26_SideOfOtherSymbol ==
  \E i \in 1..Len(cycles) :
    /\ cycles[i].pc = "analyze"
    /\ cycles[i].fn.settings.tradingSymbol = "ETHUSDT"
    /\ cycles[i].fn.mexcPositions # <<>>
    /\ cycles[i].fn.mexcPositions[1].symbol = "BTCUSDT"
    /\ cycles[i].activeSide = "LONG"

\* ------------------------------------------- claims: symbol of the snapshot
\* C27: the history of the published market snapshot holds samples of the
\* snapshot's own symbol only, so a tick that changes the snapshot's symbol
\* keeps none of the earlier samples; and once the snapshot is on the
\* configured trading symbol it stays on it while that symbol is not
\* changed: no late response for the previous symbol overwrites it.
C27_SnapshotIsOfTradingSymbol ==
  /\ [][(marketData.present /\ marketData'.present
           /\ marketData'.symbol # marketData.symbol)
          => Len(marketData'.history) = 1]_vars
  /\ [][(marketData.present /\ marketData.symbol = settings.tradingSymbol
           /\ settings'.tradingSymbol = settings.tradingSymbol)
          => marketData'.symbol = settings.tradingSymbol]_vars

\* the first half of C27 alone
C27_HistoryRestartsWithSymbol ==
  [][(marketData.present /\ marketData'.present
        /\ marketData'.symbol # marketData.symbol)
       => Len(marketData'.history) = 1]_vars

\* the second half of C27 alone
C27_NoLateOverwrite ==
  [][(marketData.present /\ marketData.symbol = settings.tradingSymbol
        /\ settings'.tradingSymbol = settings.tradingSymbol)
       => marketData'.symbol = settings.tradingSymbol]_vars

\* every tick has settled, the terminal trades ETHUSDT, and the published
\* snapshot is a BTCUSDT one whose history holds three samples
C27_LateResponsePublished ==
  /\ marketCalls = <<>>
  /\ settings.tradingSymbol = "ETHUSDT"
  /\ marketData.present
  /\ marketData.symbol = "BTCUSDT"
  /\ Len(marketData.history) = 3

\* ------------------------------------------------ claims: the Gemini client
\* C28: every Gemini analysis request is made with the Gemini key of the
\* configuration passed to that analyze call, also after the operator has
\* changed the key between two calls.
C28_GeminiRequestUsesPassedKey ==
  \A i \in 1..Len(cycles) :
    (cycles[i].pc = "analyze" /\ cycles[i].fn.settings.aiProvider = "gemini") =>
      cycles[i].key = cycles[i].fn.settings.geminiApiKey

\* requests of the other providers carry the key passed to the call: it
\* holds
C28_OpenAiRequestUsesPassedKey ==
  \A i \in 1..Len(cycles) :
    (cycles[i].pc = "analyze" /\ cycles[i].fn.settings.aiProvider = "openai") =>
      cycles[i].key = cycles[i].fn.settings.openaiApiKey

\* after the key was changed from sk to sk2, an analyze call that was handed
\* sk2 has its request outstanding under the client built with sk
C28_StaleClient ==
  /\ geminiClient = "sk"
  /\ settings.geminiApiKey = "sk2"
  /\ \E i \in 1..Len(cycles) :
       /\ cycles[i].pc = "analyze"
       /\ cycles[i].fn.settings.aiProvider = "gemini"
       /\ cycles[i].fn.settings.geminiApiKey = "sk2"
       /\ cycles[i].key = "sk"
====
